---- MODULE Spec2Model ----
(***************************************************************************)
(* Model of the useStopwatch hook (src/src/stopwatch/useStopwatch.ts).     *)
(*                                                                         *)
(* The hook keeps three pieces of React state: stopwatch (the displayed    *)
(* value), runtime (the array of recorded timestamps) and isRunning.  The  *)
(* callbacks start, stop, both (startStop), reset and split are closures   *)
(* created by a render: they read the runtime / isRunning values of that   *)
(* render (here: the record `rendered`) and write through the setters.     *)
(* Timestamps are milliseconds, as returned by Date.now().                 *)
(***************************************************************************)
EXTENDS Integers, Sequences, FiniteSets, TLC

VARIABLES
  stopwatch,    \* useState<number>(0): the displayed value
  runtime,      \* useState<number[]>([]): the recorded timestamps
  isRunning,    \* useState<boolean>(false)
  rendered,     \* the runtime / isRunning captured by the current callbacks
  now,          \* the reading Date.now() returns
  onStopCalls,  \* the arguments onStop has been invoked with, in order
  hist,         \* the commands invoked so far: [op, at, was]
  ret           \* <<v>>: the value the latest split() call returned

vars == <<stopwatch, runtime, isRunning, rendered, now, onStopCalls, hist, ret>>

\* ---------------------------------------------------------------- bounds
MaxOps == 4      \* commands (start / stop / both / reset) per behaviour
MaxTicks == 3    \* the clock runs from 0 to MaxTicks seconds
LongOps == 6     \* commands per behaviour when only commands are invoked

\* ---------------------------------------------------------- JS helpers
\* runtime[i] of the 0-based JS array, on the 1-based sequence.  A read is
\* <<v>> for the number v, and `undefined` (the empty tuple) past the end.
undefined == <<>>
At(arr, i) == IF i + 1 <= Len(arr) THEN <<arr[i + 1]>> ELSE undefined

\* JS truthiness of a read: undefined and the number 0 are falsy.
Truthy(r) == r # undefined /\ r[1] # 0

\* ------------------------------------------------------------- split()
\* The loop of split(): i = from, from + 2, ... while i < runtime.length.
RECURSIVE splitLoop(_, _, _)
splitLoop(arr, i, t) ==
  IF i < Len(arr)
  THEN LET curr == At(arr, i)
           next == At(arr, i + 1)
       IN  (IF Truthy(next) THEN next[1] - curr[1] ELSE t - curr[1])
           + splitLoop(arr, i + 2, t)
  ELSE 0

\* Mutant: split() that only measures the last entry against the clock.
splitLastOnly(arr, t) == IF Len(arr) = 0 THEN 0 ELSE t - arr[Len(arr)]

\* Mutant: split() that ignores an entry without a partner.
splitClosedOnly(arr, t) ==
  IF Len(arr) % 2 = 1 THEN splitLoop(SubSeq(arr, 1, Len(arr) - 1), 0, t)
  ELSE splitLoop(arr, 0, t)

\* Mutant: split() with the operands of the open interval swapped
\* (curr - Date.now()).
RECURSIVE splitLoopSwapped(_, _, _)
splitLoopSwapped(arr, i, t) ==
  IF i < Len(arr)
  THEN LET curr == At(arr, i)
           next == At(arr, i + 1)
       IN  (IF Truthy(next) THEN next[1] - curr[1] ELSE curr[1] - t)
           + splitLoopSwapped(arr, i + 2, t)
  ELSE 0

splitSwapped(arr, t) == splitLoopSwapped(arr, 0, t)

\* split() of a render whose runtime is arr, called when Date.now() = t.
split(arr, t) == splitLoop(arr, 0, t)

\* --------------------------------------------------------- the handlers
\* Each handler is a function of the render it was created by (v: the
\* captured runtime and isRunning), the committed state s it updates through
\* the setters, and the clock reading t.  s.calls is the log of onStop.
Fresh == [stopwatch |-> 0, runtime |-> <<>>, isRunning |-> FALSE, calls |-> <<>>]

View(s) == [runtime |-> s.runtime, isRunning |-> s.isRunning]

\* Mutant: both() that stops the way stop() does, appending nothing.
startStopNoClose(v, s, t) ==
  IF v.isRunning THEN [s EXCEPT !.isRunning = FALSE]
  ELSE [s EXCEPT !.runtime = Append(v.runtime, t), !.isRunning = TRUE]

\* Mutant: both() that puts the new timestamp in front: [Date.now(), ...runtime].
startStopPrepend(v, s, t) ==
  [s EXCEPT !.runtime = <<t>> \o v.runtime, !.isRunning = ~v.isRunning]

\* both: setRuntime([...runtime, Date.now()]); setIsRunning(!isRunning)
startStop(v, s, t) ==
  [s EXCEPT !.runtime = Append(v.runtime, t), !.isRunning = ~v.isRunning]

\* Mutant: start() without its `if (!isRunning)` guard.
startUnguarded(v, s, t) ==
  [s EXCEPT !.runtime = Append(v.runtime, t), !.isRunning = TRUE]

start(v, s, t) ==
  IF ~v.isRunning
  THEN [s EXCEPT !.runtime = Append(v.runtime, t), !.isRunning = TRUE]
  ELSE s

\* Mutant: stop() without its `if (isRunning)` guard.
stopUnguarded(v, s, t) ==
  [s EXCEPT !.calls = Append(s.calls, split(v.runtime, t)), !.isRunning = FALSE]

\* Mutant: stop() that reports only the interval it closes.
stopLastInterval(v, s, t) ==
  IF v.isRunning
  THEN [s EXCEPT !.calls = Append(s.calls, splitLastOnly(v.runtime, t)),
                 !.isRunning = FALSE]
  ELSE s

stop(v, s, t) ==
  IF v.isRunning
  THEN [s EXCEPT !.calls = Append(s.calls, split(v.runtime, t)),
                 !.isRunning = FALSE]
  ELSE s

\* Mutant: reset() that forgets setStopwatch(0).
resetKeepsDisplay(s) == [s EXCEPT !.runtime = <<>>, !.isRunning = FALSE]

reset(s) == [s EXCEPT !.stopwatch = 0, !.runtime = <<>>, !.isRunning = FALSE]

\* Mutant: the timer callback without its `if (isRunning)` guard.
pollUnguarded(v, s, t) == [s EXCEPT !.stopwatch = split(v.runtime, t)]

\* The setInterval callback: if (isRunning) setStopwatch(split())
poll(v, s, t) ==
  IF v.isRunning THEN [s EXCEPT !.stopwatch = split(v.runtime, t)] ELSE s

\* The handler a command name stands for.
Apply(op, v, s, t) ==
  CASE op = "start" -> start(v, s, t)
    [] op = "stop"  -> stop(v, s, t)
    [] op = "both"  -> startStop(v, s, t)
    [] op = "reset" -> reset(s)

\* ------------------------------------------------------------ the state
Cur == [stopwatch |-> stopwatch, runtime |-> runtime,
        isRunning |-> isRunning, calls |-> onStopCalls]

\* The setters' values (and the onStop calls made) of a handler.
\* Commit: React commits them and re-renders, so that the callbacks of the
\* next event capture the committed runtime and isRunning.
SetState(s) ==
  /\ stopwatch' = s.stopwatch
  /\ runtime' = s.runtime
  /\ isRunning' = s.isRunning
  /\ onStopCalls' = s.calls

Commit(s) ==
  /\ SetState(s)
  /\ rendered' = View(s)

Log(op) == hist' = Append(hist, [op |-> op, at |-> now, was |-> isRunning])

Init ==
  /\ stopwatch = 0
  /\ runtime = <<>>
  /\ isRunning = FALSE
  /\ rendered = [runtime |-> <<>>, isRunning |-> FALSE]
  /\ now = 0
  /\ onStopCalls = <<>>
  /\ hist = <<>>
  /\ ret = <<>>

\* ---------------------------------------------------------- the actions
Start ==
  /\ Len(hist) < MaxOps
  /\ Commit(start(rendered, Cur, now))
  /\ Log("start")
  /\ UNCHANGED <<now, ret>>

Stop ==
  /\ Len(hist) < MaxOps
  /\ Commit(stop(rendered, Cur, now))
  /\ Log("stop")
  /\ UNCHANGED <<now, ret>>

Both ==
  /\ Len(hist) < MaxOps
  /\ Commit(startStop(rendered, Cur, now))
  /\ Log("both")
  /\ UNCHANGED <<now, ret>>

Reset ==
  /\ Len(hist) < MaxOps
  /\ Commit(reset(Cur))
  /\ Log("reset")
  /\ UNCHANGED <<now, ret>>

\* A caller reads split().
Split ==
  /\ ret' = <<split(rendered.runtime, now)>>
  /\ UNCHANGED <<stopwatch, runtime, isRunning, rendered, now, onStopCalls, hist>>

\* The interval timer fires.
Poll ==
  /\ Commit(poll(rendered, Cur, now))
  /\ UNCHANGED <<now, hist, ret>>

\* Time passes: Date.now() moves on by whole seconds.
Tick ==
  /\ \E d \in 1..MaxTicks :
       /\ now + d * 1000 <= MaxTicks * 1000
       /\ now' = now + d * 1000
  /\ UNCHANGED <<stopwatch, runtime, isRunning, rendered, onStopCalls, hist, ret>>

Next == Start \/ Stop \/ Both \/ Reset \/ Split \/ Poll \/ Tick

Spec == Init /\ [][Next]_vars

\* ------------------------------------------- commands of one render
\* The same hook when a caller invokes several commands through the callbacks
\* of one render (two calls in one event handler, or a callback kept from an
\* earlier render): a command writes through the setters, and the callbacks
\* keep reading the runtime and isRunning of their render until React has
\* rendered again.
StaleStart ==
  /\ Len(hist) < MaxOps
  /\ SetState(start(rendered, Cur, now))
  /\ Log("start")
  /\ UNCHANGED <<rendered, now, ret>>

StaleStop ==
  /\ Len(hist) < MaxOps
  /\ SetState(stop(rendered, Cur, now))
  /\ Log("stop")
  /\ UNCHANGED <<rendered, now, ret>>

StaleBoth ==
  /\ Len(hist) < MaxOps
  /\ SetState(startStop(rendered, Cur, now))
  /\ Log("both")
  /\ UNCHANGED <<rendered, now, ret>>

StaleReset ==
  /\ Len(hist) < MaxOps
  /\ SetState(reset(Cur))
  /\ Log("reset")
  /\ UNCHANGED <<rendered, now, ret>>

\* React renders the committed state: new callbacks are created.
Render ==
  /\ rendered # View(Cur)
  /\ rendered' = View(Cur)
  /\ UNCHANGED <<stopwatch, runtime, isRunning, now, onStopCalls, hist, ret>>

\* The timer callback runs as an event of its own, between renders.
TimerPoll == rendered = View(Cur) /\ Poll

NextStale ==
  StaleStart \/ StaleStop \/ StaleBoth \/ StaleReset \/ Render
    \/ Split \/ TimerPoll \/ Tick

SpecStale == Init /\ [][NextStale]_vars

\* ------------------------------------------------- longer command runs
\* The commands that decide what onStop is told (start, stop, both), without
\* reset(), split() reads and poll ticks, for up to LongOps commands.
LongStart ==
  /\ Len(hist) < LongOps
  /\ Commit(start(rendered, Cur, now))
  /\ Log("start")
  /\ UNCHANGED <<now, ret>>

LongStop ==
  /\ Len(hist) < LongOps
  /\ Commit(stop(rendered, Cur, now))
  /\ Log("stop")
  /\ UNCHANGED <<now, ret>>

LongBoth ==
  /\ Len(hist) < LongOps
  /\ Commit(startStop(rendered, Cur, now))
  /\ Log("both")
  /\ UNCHANGED <<now, ret>>

NextLong == LongStart \/ LongStop \/ LongBoth \/ Tick

SpecLong == Init /\ [][NextLong]_vars

\* --------------------------------------------------- reading the history
OpsOf(h) == [i \in 1..Len(h) |-> h[i].op]

Last(h) == h[Len(h)]

\* A command of the given name has just been invoked.
Invoked(op) == hist' # hist /\ Last(hist').op = op

\* hist[i] is a stop() that found the stopwatch running.
FiredStop(h, i) == h[i].op = "stop" /\ h[i].was

\* hist[i] is a start() or both() that found the stopwatch idle.
EnteredRunning(h, i) == h[i].op \in {"start", "both"} /\ ~h[i].was

\* The commands of h, each invoked at its clock reading through the callbacks
\* of the render that follows the command before it, from the state s.
RECURSIVE Replay(_, _)
Replay(h, s) ==
  IF h = <<>> THEN s
  ELSE Replay(Tail(h), Apply(Head(h).op, View(s), s, Head(h).at))

\* The same, with both() in the place of every command.
RECURSIVE ReplayBoth(_, _)
ReplayBoth(h, s) ==
  IF h = <<>> THEN s
  ELSE ReplayBoth(Tail(h), startStop(View(s), s, Head(h).at))

\* h without its i-th command.
Without(h, i) == SubSeq(h, 1, i - 1) \o SubSeq(h, i + 1, Len(h))

\* start(), stop(), start(), ... : n alternating commands, start() first.
Alternating(h) ==
  \A i \in 1..Len(h) : h[i].op = (IF i % 2 = 1 THEN "start" ELSE "stop")

\* ------------------------------------------------------------------ C1
\* C1: on a fresh stopwatch, start(); advance d1; stop(); idle; start();
\* advance d2; stop() invokes onStop twice, the second time with d1 + d2.
C1_AccumulatesAcrossCycles ==
  OpsOf(hist) = <<"start", "stop", "start", "stop">> =>
    /\ Len(onStopCalls) = 2
    /\ onStopCalls[2] = (hist[2].at - hist[1].at) + (hist[4].at - hist[3].at)

\* ------------------------------------------------------------------ C2
\* C2: after any completed sequence of commands, isRunning is true if and
\* only if runtime has odd length.
C2_ParityInvariant == isRunning <=> (Len(runtime) % 2 = 1)

\* ------------------------------------------------------------------ C3
\* C3: while isRunning is false and no command is invoked, split() does not
\* change, whatever the clock does.
C3_SplitFrozenWhileIdle ==
  [][(~isRunning /\ hist' = hist) =>
       split(rendered'.runtime, now') = split(rendered.runtime, now)]_vars

\* ------------------------------------------------------------------ C4
\* C4: after start() at t0, stop() at t1 and start() at t2, split() at
\* t3 >= t2 returns (t1 - t0) + (t3 - t2); with the readings 0, 1000, 1000,
\* 2000, ... the first split() returns 1000 and stop() reports 1000.
C4_RestartScenario ==
  /\ (OpsOf(hist) = <<"start">> /\ hist[1].at = 0 /\ now = 1000) =>
       split(rendered.runtime, now) = 1000
  /\ (OpsOf(hist) = <<"start", "stop">> /\ hist[1].at = 0 /\ hist[2].at = 1000) =>
       onStopCalls = <<1000>>
  /\ OpsOf(hist) = <<"start", "stop", "start">> =>
       split(rendered.runtime, now) =
         (hist[2].at - hist[1].at) + (now - hist[3].at)

\* ------------------------------------------------------------------ C5
\* C5: on a fresh stopwatch, start() followed after d time units by stop()
\* invokes onStop exactly once, with d, and leaves isRunning false.
C5_StartStopRoundTrip ==
  OpsOf(hist) = <<"start", "stop">> =>
    /\ onStopCalls = <<hist[2].at - hist[1].at>>
    /\ ~isRunning

C5_Witness ==
  /\ OpsOf(hist) = <<"start", "stop">>
  /\ hist[1].at = 1000 /\ hist[2].at = 3000
  /\ onStopCalls = <<2000>>

C7_IdempotentStart ==
  /\ [][(Invoked("start") /\ isRunning) =>
          /\ UNCHANGED <<runtime, isRunning, stopwatch, rendered>>
          /\ split(rendered'.runtime, now') = split(rendered.runtime, now)]_vars
  /\ [](\A i \in 1..Len(hist) :
          (hist[i].op = "start" /\ hist[i].was) =>
            LET s == Replay(Without(hist, i), Fresh)
            IN  /\ s.runtime = runtime
                /\ s.isRunning = isRunning
                /\ s.calls = onStopCalls)

\* A second start() was invoked a second after the first, and time went on.
C7_Witness ==
  /\ Len(hist) = 2
  /\ hist[1].op = "start" /\ hist[2].op = "start" /\ hist[2].was
  /\ hist[2].at = hist[1].at + 1000
  /\ now > hist[2].at
  /\ runtime = <<hist[1].at>>
  /\ isRunning

\* ------------------------------------------------------------------ C8
\* C8: stop() invoked while isRunning is false does not invoke onStop and
\* leaves runtime, isRunning and the displayed value unchanged, so that
\* split() is the same before and after the call.
C8_IdempotentStop ==
  [][(Invoked("stop") /\ ~isRunning) =>
       /\ UNCHANGED <<onStopCalls, runtime, isRunning, stopwatch, rendered>>
       /\ split(rendered'.runtime, now') = split(rendered.runtime, now)]_vars

\* stop() was invoked on a stopwatch that had run and was stopped before.
C8_Witness ==
  /\ Len(hist) = 3
  /\ hist[3].op = "stop" /\ ~hist[3].was
  /\ FiredStop(hist, 2)
  /\ hist[3].at > hist[2].at
  /\ Len(onStopCalls) = 1
  /\ runtime # <<>>
  /\ ~isRunning

\* ------------------------------------------------------------------ C9
\* The index of the last reset() in h, 0 if there is none.
LastReset(h) ==
  LET R == {i \in 1..Len(h) : h[i].op = "reset"}
  IN  IF R = {} THEN 0 ELSE CHOOSE i \in R : \A j \in R : j <= i

\* C9: from any state, reset() yields the initial state (runtime empty,
\* isRunning false, displayed value 0, split() = 0) without invoking onStop,
\* and the commands that follow it behave as on a fresh stopwatch.
C9_ResetClearsEverything ==
  /\ [][Invoked("reset") =>
          /\ stopwatch' = Fresh.stopwatch
          /\ runtime' = Fresh.runtime
          /\ isRunning' = Fresh.isRunning
          /\ rendered' = View(Fresh)
          /\ split(rendered'.runtime, now') = 0
          /\ onStopCalls' = onStopCalls]_vars
  /\ [](LET k == LastReset(hist)
            before == Cardinality({i \in 1..k : FiredStop(hist, i)})
            s == Replay(SubSeq(hist, k + 1, Len(hist)), Fresh)
        IN  k > 0 =>
              /\ s.runtime = runtime
              /\ s.isRunning = isRunning
              /\ s.calls = SubSeq(onStopCalls, before + 1, Len(onStopCalls)))

\* reset() was invoked on a running stopwatch that had been stopped once and
\* displayed a value, and the stopwatch was started again after it.
C9_Witness ==
  /\ Len(hist) = 4
  /\ FiredStop(hist, 2)
  /\ hist[3].op = "reset" /\ hist[3].at > hist[1].at
  /\ hist[4].op = "start" /\ hist[4].at > hist[3].at
  /\ runtime = <<hist[4].at>>
  /\ onStopCalls = <<hist[2].at - hist[1].at>>
  /\ isRunning

\* ----------------------------------------------------------------- C10
\* C10: from the fresh state and with the same clock readings, n both()
\* calls produce the same runtime and the same isRunning as the alternating
\* start(), stop(), start(), ... of n calls.
C10_ToggleEquivalence ==
  Alternating(hist) =>
    LET b == ReplayBoth(hist, Fresh)
    IN  runtime = b.runtime /\ isRunning = b.isRunning


\* ----------------------------------------------------------------- C11
\* C11: in every state, both() appends exactly one timestamp, the current
\* clock reading, to the end of runtime, negates isRunning, leaves the earlier
\* entries and the displayed value unchanged and does not invoke onStop.
C11_BothTogglesUnconditionally ==
  [][Invoked("both") =>
       /\ runtime' = Append(runtime, now)
       /\ isRunning' = ~isRunning
       /\ UNCHANGED <<stopwatch, onStopCalls>>]_vars

\* both() was invoked on a running stopwatch that displayed a value, after
\* an earlier both() pair.
C11_Witness ==
  /\ Len(hist) = 4
  /\ hist[4].op = "both" /\ hist[4].was
  /\ Len(runtime) = 4
  /\ runtime[4] = hist[4].at /\ runtime[4] > runtime[3]
  /\ stopwatch > 0
  /\ ~isRunning


\* ----------------------------------------------------------------- C12
\* C12: with a non-decreasing clock, during one continuous Running period
\* (no command in between) successive split() results are non-decreasing:
\* split() never goes down over a step that invokes no command, and a value
\* split() returned earlier in the period is not above the present one.
C12_MonotonicWhileRunning ==
  /\ [][(isRunning /\ hist' = hist) =>
          split(rendered'.runtime, now') >= split(rendered.runtime, now)]_vars
  /\ []((OpsOf(hist) \in {<<"start">>, <<"both">>} /\ ret # <<>>) =>
          ret[1] <= split(rendered.runtime, now))

\* split() returned 1000 one second into the first Running period, and the
\* clock has moved on since.
C12_Witness ==
  /\ Len(hist) = 1 /\ hist[1].op = "start"
  /\ isRunning
  /\ ret = <<1000>>
  /\ now >= hist[1].at + 2000
  /\ split(rendered.runtime, now) >= 2000


\* ----------------------------------------------------------------- C13
\* The sum the claim states: arr[2k+1] - arr[2k] over the index pairs present
\* (0-based), plus t - last for a trailing unpaired entry.
RECURSIVE PairSum(_, _)
PairSum(arr, t) ==
  IF Len(arr) = 0 THEN 0
  ELSE IF Len(arr) = 1 THEN t - arr[1]
  ELSE (arr[2] - arr[1]) + PairSum(SubSeq(arr, 3, Len(arr)), t)

\* C13: for every stored runtime of non-negative timestamps (0 included) and
\* every clock reading, split() returns the sum of the recorded pairs plus
\* now - last for a trailing unpaired entry; a recorded pair is never
\* measured against now.
C13_SplitMatchesPairSum ==
  split(runtime, now) = PairSum(runtime, now)


\* ----------------------------------------------------------------- C14
\* C14: split() changes no state; a poll tick never changes runtime or
\* isRunning and never invokes onStop, and changes the displayed value only
\* when isRunning is true, to split() at that moment; while idle the
\* displayed value is changed by reset() alone.
C14_PollAndSplitSideEffectFree ==
  /\ [][ret' # ret =>
          UNCHANGED <<stopwatch, runtime, isRunning, rendered, now, onStopCalls, hist>>]_vars
  /\ [][hist' = hist =>
          /\ UNCHANGED <<runtime, isRunning, rendered, onStopCalls>>
          /\ stopwatch' # stopwatch =>
               isRunning /\ stopwatch' = split(runtime, now)]_vars
  /\ [][(~isRunning /\ stopwatch' # stopwatch) => Invoked("reset")]_vars

\* The stopwatch was polled while it ran, was stopped, and split() was read
\* later: the displayed value is where the last poll left it, while split()
\* has a different value.
C14_Witness ==
  /\ ~isRunning
  /\ Len(hist) = 2 /\ FiredStop(hist, 2)
  /\ stopwatch = 1000
  /\ ret # <<>> /\ ret[1] = split(rendered.runtime, now)
  /\ ret[1] # stopwatch

\* ----------------------------------------------------------------- C15
Ordered(arr) == \A i, j \in 1..Len(arr) : i <= j => arr[i] <= arr[j]

IsPrefix(a, b) == Len(a) <= Len(b) /\ SubSeq(b, 1, Len(a)) = a

\* C15: with a non-decreasing clock the timestamps of runtime are
\* non-decreasing in index order, and no operation other than reset()
\* removes or rewrites a stored timestamp: start() and both() only append.
C15_OrderedBoundaries ==
  /\ [] Ordered(runtime)
  /\ [][~Invoked("reset") => IsPrefix(runtime, runtime')]_vars

\* Four timestamps, each later than the one before it.
C15_Witness ==
  /\ Len(runtime) = 4
  /\ \A i \in 1..3 : runtime[i] < runtime[i + 1]


\* ----------------------------------------------------------------- C16
\* C16: when two commands are invoked through callbacks of the same render,
\* the committed result equals the result of applying the two commands one
\* after the other (each through the callbacks of the render before it).
C16_NoLostCommands ==
  Len(hist) = 2 =>
    LET s == Replay(hist, Fresh)
    IN  /\ runtime = s.runtime
        /\ isRunning = s.isRunning
        /\ onStopCalls = s.calls


\* ----------------------------------------------------------------- C17
\* C17: with a non-decreasing clock, for any sequence of start(), stop() and
\* both() calls containing no reset(), the values passed to successive onStop
\* invocations are non-decreasing.
C17_ReportedTotalsNeverGoBack ==
  (\A i \in 1..Len(hist) : hist[i].op # "reset") =>
    \A i \in 1..(Len(onStopCalls) - 1) : onStopCalls[i] <= onStopCalls[i + 1]


\* onStop has been invoked three times, each time with a larger total.
C17_Witness ==
  /\ Len(onStopCalls) = 3
  /\ onStopCalls[1] > 0
  /\ onStopCalls[1] < onStopCalls[2]
  /\ onStopCalls[2] < onStopCalls[3]

====
